---- MODULE Spec2Model ----
(***************************************************************************)
(* Circle-line game: the four client programs of the repository and the   *)
(* shared Firebase record they play on.                                    *)
(*                                                                         *)
(*   "pd"  pending-draw variant      src/script.js 1-560                   *)
(*   "ic"  immediate-claim variant   src/script.js 562-1034                *)
(*   "tx"  transaction variant       src/unnamed/part_000 1-226            *)
(*   "sv"  simple variant            src/unnamed/part_000 228-347          *)
(*                                                                         *)
(* Two clients play one match.  The store applies writes in the order in   *)
(* which they arrive; every client sees its own writes at once (Firebase   *)
(* applies them to the local cache) and the writes of the other client     *)
(* later, in order, together with the acknowledgements of its own writes.  *)
(* The model applies a write to the store in the step that issues it and   *)
(* keeps all delay on the way back (inbox): for FIFO links this yields the *)
(* same store histories and the same client histories as delaying the      *)
(* write on its way to the store.                                          *)
(***************************************************************************)
EXTENDS Integers, Sequences, FiniteSets, TLC

VARIABLES variant, store, sv, pending, inbox, loc, last, resets

vars == <<variant, store, sv, pending, inbox, loc, last, resets>>

\* ------------------------------------------------------------------ bounds
\* Rows of the board the two clients play on (the program plays on ROW_COUNT).
BoardRows == 2
\* Writes of one client that may be waiting for their acknowledgement.
MaxPending == 2
\* Resets of the match in one behaviour.
MaxResets == 1
\* 100 ms timers of drawOneEligibleLine that may be waiting at one client.
MaxTimers == 1
\* Page loads after the first, of both clients together.
MaxReloads == 1
\* Lines in the record of the transaction variant when another is drawn.
MaxLines == 1
\* Transactions of one client that may be waiting for the store's answer.
MaxInFlight == 1

\* ---------------------------------------------------------------- geometry
ROW_COUNT == 10

Other(p) == IF p = 1 THEN 2 ELSE 1

Clients == {1, 2}

\* boardStructure: row r holds the columns 1 .. n+1-r.
boardStructure(n) == {<<r, c>> : r \in 1..n, c \in 1..n} \cap
                     {rc \in (1..n) \X (1..n) : rc[2] <= n + 1 - rc[1]}

\* The walk of collectDiagBackslash with the row's bound one column further.
RECURSIVE collectDiagBackslashWide(_, _, _)
collectDiagBackslashWide(n, r, c) ==
  IF r <= n /\ c <= n + 2 - r
    THEN <<<<r, c>>>> \o collectDiagBackslashWide(n, r + 1, c + 1)
    ELSE <<>>

RECURSIVE collectDiagBackslash(_, _, _)
collectDiagBackslash(n, r, c) ==
  IF r <= n /\ c <= n + 1 - r
    THEN <<<<r, c>>>> \o collectDiagBackslash(n, r + 1, c + 1)
    ELSE <<>>

RECURSIVE collectDiagSlash(_, _, _)
collectDiagSlash(n, r, c) ==
  IF r <= n /\ c >= 1
    THEN IF c <= n + 1 - r
           THEN <<<<r, c>>>> \o collectDiagSlash(n, r + 1, c - 1)
           ELSE <<>>
    ELSE <<>>

rowCells(n, r) == [i \in 1..(n + 1 - r) |-> <<r, i>>]

\* colCells: the cells (r, c) of column c, top down.
RECURSIVE colCellsFrom(_, _, _)
colCellsFrom(n, r, c) ==
  IF r > n THEN <<>>
  ELSE (IF c <= n + 1 - r THEN <<<<r, c>>>> ELSE <<>>) \o colCellsFrom(n, r + 1, c)

\* A catalogue is a set of entries [id, cells]; ids are the object's keys.
Entry(kind, i, cells) == [id |-> <<kind, i>>, cells |-> cells]

\* The catalogue with every top-row diagonal kept, whatever its length.
PD_ALL_LINES_Unfiltered(n) ==
  {Entry("row", r, rowCells(n, r)) : r \in 1..n}
  \cup {Entry("diag_bslash", c, collectDiagBackslash(n, 1, c)) : c \in 1..n}
  \cup {Entry("diag_fslash", c, collectDiagSlash(n, 1, c)) : c \in 1..n}

\* ALL_LINES of the pending-draw variant.
PD_ALL_LINES(n) ==
  {Entry("row", r, rowCells(n, r)) : r \in 1..n}
  \cup {e \in {Entry("diag_bslash", c, collectDiagBackslash(n, 1, c)) : c \in 1..n} :
          Len(e.cells) > 1}
  \cup {e \in {Entry("diag_fslash", c, collectDiagSlash(n, 1, c)) : c \in 1..n} :
          Len(e.cells) > 1}

\* ALL_LINES of the immediate-claim variant.
IC_ALL_LINES(n) ==
  {Entry("row", r, rowCells(n, r)) : r \in 1..n}
  \cup {e \in {Entry("col", c, colCellsFrom(n, 1, c)) : c \in 1..n} : Len(e.cells) > 1}
  \cup {e \in {Entry("diag_b-top", c, collectDiagBackslash(n, 1, c)) : c \in 1..n} :
          Len(e.cells) > 1}
  \cup {e \in {Entry("diag_b-left", r, collectDiagBackslash(n, r, 1)) : r \in 2..n} :
          Len(e.cells) > 1}
  \cup {e \in {Entry("diag_f-top", c, collectDiagSlash(n, 1, c)) : c \in 1..n} :
          Len(e.cells) > 1}
  \cup {e \in {Entry("diag_f-right", r, collectDiagSlash(n, r, n + 1 - r)) : r \in 2..n} :
          Len(e.cells) > 1}

Range(s) == {s[i] : i \in 1..Len(s)}

\* ------------------------------------------------- script.js: shared parts
\* The catalogue of the running variant, on the board the clients play on.
PDLines == PD_ALL_LINES(BoardRows)

ICLines == IC_ALL_LINES(BoardRows)

Catalogue == IF variant = "pd" THEN PDLines ELSE ICLines

LineIds == {e.id : e \in Catalogue}

\* LINE_TO_KEYS[lineId]: the set of cell keys of a line.
LINE_TO_KEYS(l) == Range((CHOOSE e \in Catalogue : e.id = l).cells)

Keys == boardStructure(BoardRows)

\* buildInitialState(); `lines` maps a line that is not drawn to 0.
buildInitialState ==
  [cells  |-> [k \in Keys |-> 0],
   turn   |-> 1,
   scores |-> [q \in Clients |-> 0],
   lines  |-> [l \in LineIds |-> 0]]

\* The writes the clients issue: update(GAME_REF, updates) and set(GAME_REF, ..).
WFill(k, p) == [op |-> "fill", key |-> k, val |-> p]

WTurn(t) == [op |-> "turn", val |-> t]

WClaim(ls, p, sc) == [op |-> "claim", lines |-> ls, val |-> p, score |-> sc]

WReset == [op |-> "reset"]

\* A reset that writes the pieces of the initial record but leaves `scores`.
ApplyKeepScores(w, S) ==
  CASE w.op = "fill"  -> [S EXCEPT !.cells[w.key] = w.val]
    [] w.op = "turn"  -> [S EXCEPT !.turn = w.val]
    [] w.op = "claim" -> [S EXCEPT !.lines = [l \in DOMAIN @ |->
                                               IF l \in w.lines THEN w.val ELSE @[l]],
                                   !.scores[w.val] = w.score]
    [] w.op = "reset" -> [buildInitialState EXCEPT !.scores = S.scores]

\* What a write does to a record (at the store, or on a client's cache).
Apply(w, S) ==
  CASE w.op = "fill"  -> [S EXCEPT !.cells[w.key] = w.val]
    [] w.op = "turn"  -> [S EXCEPT !.turn = w.val]
    [] w.op = "claim" -> [S EXCEPT !.lines = [l \in DOMAIN @ |->
                                               IF l \in w.lines THEN w.val ELSE @[l]],
                                   !.scores[w.val] = w.score]
    [] w.op = "reset" -> buildInitialState

RECURSIVE ApplyAll(_, _)
ApplyAll(ws, S) == IF ws = <<>> THEN S ELSE ApplyAll(Tail(ws), Apply(Head(ws), S))

\* snapshotValue(GAME_REF): the client's cache, i.e. the last record received
\* from the store with the client's unacknowledged writes on top.
snapshotValue(p) == ApplyAll(pending[p], sv[p])

\* The store tells the writer (an acknowledgement) and the other client (data).
\* A data message that is still waiting is overtaken by a newer one: receiving
\* the two in a row shows the client the newer record only.
PushData(q, S) ==
  IF Len(q) > 0 /\ ~q[Len(q)].ack
    THEN [q EXCEPT ![Len(q)] = [st |-> S, ack |-> FALSE]]
    ELSE Append(q, [st |-> S, ack |-> FALSE])

PushAck(q, S) ==
  IF Len(q) > 0 /\ ~q[Len(q)].ack
    THEN [q EXCEPT ![Len(q)] = [st |-> S, ack |-> TRUE]]
    ELSE Append(q, [st |-> S, ack |-> TRUE])

\* The lines that count as completed for the check after filling `k`, read
\* from record S (checkEligibleAfterFill / processAfterFill).
CompletedThrough(k, S) ==
  {l \in LineIds : /\ k \in LINE_TO_KEYS(l)
                   /\ S.lines[l] = 0
                   /\ \A c \in LINE_TO_KEYS(l) : S.cells[c] # 0}

RECURSIVE SumLen(_)
SumLen(ls) ==
  IF ls = {} THEN 0
  ELSE LET l == CHOOSE x \in ls : TRUE
       IN Cardinality(LINE_TO_KEYS(l)) + SumLen(ls \ {l})

\* updateBoardUI: the dashed overlays that are in the DOM after a render.
updateBoardUI(p, S, pl) == IF S.turn = p /\ pl # {} THEN pl ELSE {}

\* The client-local variables of script.js.
LocInit == [pendingLines |-> {}, overlay |-> {}, timers |-> 0]

\* History kept for the properties: `last` is the write the store applied
\* last, the record it was applied to, and the latest fill of the match with
\* the lines that fill completed in the store.
NoFill == [by |-> 0, done |-> {}]

\* update(GAME_REF, w) / set(GAME_REF, ..) by client p, issued when p's writes
\* waiting for an acknowledgement are `pend` and the messages on their way to
\* the clients are `inb`.
Write(p, w, pend, inb) ==
  /\ store' = Apply(w, store)
  /\ pending' = [pending EXCEPT ![p] = Append(pend, w)]
  /\ inbox' = [q \in Clients |->
                 IF q = p THEN PushAck(inb[q], Apply(w, store))
                 ELSE IF Apply(w, store) # store THEN PushData(inb[q], Apply(w, store))
                 ELSE inb[q]]
  /\ last' = [op |-> w.op, by |-> p, w |-> w, before |-> store,
              fill |-> CASE w.op = "fill" ->
                              [by |-> p,
                               done |-> CompletedThrough(w.key, Apply(w, store))]
                         [] w.op = "reset" -> NoFill
                         [] OTHER -> last.fill]

NoWrite(p, pend, inb) ==
  /\ pending' = [pending EXCEPT ![p] = pend]
  /\ inbox' = inb
  /\ UNCHANGED <<store, last>>

\* ----------------------------------------- script.js 1-560: pending-draw
\* gameContainer click handler: a click on the circle with key k.
PDClickCell(p, k) ==
  LET state == snapshotValue(p)
  IN /\ variant = "pd"
     /\ Len(pending[p]) < MaxPending
     /\ state.turn = p
     /\ loc[p].pendingLines = {}
     /\ state.cells[k] = 0
     /\ Write(p, WFill(k, p), pending[p], inbox)
     /\ loc' = [loc EXCEPT ![p].overlay =
                  updateBoardUI(p, Apply(WFill(k, p), state), loc[p].pendingLines)]
     /\ UNCHANGED <<variant, sv, resets>>

\* svgOverlay click handler and drawOneEligibleLine: a click on the dashed
\* overlay of line l.
PDClickLine(p, l) ==
  LET state == snapshotValue(p)
      w == WClaim({l}, p, state.scores[p] + Cardinality(LINE_TO_KEYS(l)))
  IN /\ variant = "pd"
     /\ Len(pending[p]) < MaxPending
     /\ loc[p].timers < MaxTimers
     /\ l \in loc[p].overlay
     /\ l \in loc[p].pendingLines
     /\ Write(p, w, pending[p], inbox)
     /\ loc' = [loc EXCEPT ![p] =
                  [pendingLines |-> loc[p].pendingLines \ {l},
                   overlay |-> updateBoardUI(p, Apply(w, state), loc[p].pendingLines),
                   timers |-> loc[p].timers + 1]]
     /\ UNCHANGED <<variant, sv, resets>>

\* The 100 ms timer of drawOneEligibleLine, and finalizeAfterAllLines.
PDTimer(p) ==
  LET state == snapshotValue(p)
      pl == loc[p].pendingLines
  IN /\ variant = "pd"
     /\ loc[p].timers > 0
     /\ IF pl = {}
          THEN /\ Write(p, WTurn(Other(p)), pending[p], inbox)
               /\ loc' = [loc EXCEPT ![p].timers = @ - 1, ![p].overlay = {}]
          ELSE /\ NoWrite(p, pending[p], inbox)
               /\ loc' = [loc EXCEPT ![p].timers = @ - 1,
                                     ![p].overlay = updateBoardUI(p, state, pl)]
     /\ UNCHANGED <<variant, sv, resets>>

\* A check after the fill that claims the completed lines at once.
checkEligibleAndClaim(p, filledKey, state, pend, inb) ==
  LET newlyEligible == CompletedThrough(filledKey, state)
  IN /\ IF newlyEligible # {}
          THEN Write(p, WClaim(newlyEligible, p, state.scores[p] + SumLen(newlyEligible)),
                     pend, inb)
          ELSE Write(p, WTurn(Other(p)), pend, inb)
     /\ UNCHANGED loc

\* checkEligibleAfterFill(filledKey), run on record `state` with p's writes
\* `pend` still waiting.
checkEligibleAfterFill(p, filledKey, state, pend, inb) ==
  LET newlyEligible == CompletedThrough(filledKey, state)
  IN IF newlyEligible # {}
       THEN /\ NoWrite(p, pend, inb)
            /\ loc' = [loc EXCEPT ![p].pendingLines = newlyEligible,
                                  ![p].overlay = updateBoardUI(p, state, newlyEligible)]
       ELSE /\ Write(p, WTurn(Other(p)), pend, inb)
            /\ loc' = [loc EXCEPT ![p].overlay =
                         IF Apply(WTurn(Other(p)), state) # state \/ state # snapshotValue(p)
                           THEN updateBoardUI(p, Apply(WTurn(Other(p)), state),
                                              loc[p].pendingLines)
                           ELSE @]

\* The next message of the store reaches client p: the onValue(GAME_REF)
\* listener, and for the acknowledgement of a fill the .then() of the click
\* handler.
PDDeliver(p) ==
  /\ variant = "pd"
  /\ inbox[p] # <<>>
  /\ LET m == Head(inbox[p])
         pend == IF m.ack THEN Tail(pending[p]) ELSE pending[p]
         inb == [inbox EXCEPT ![p] = Tail(@)]
         state == ApplyAll(pend, m.st)
     IN /\ sv' = [sv EXCEPT ![p] = m.st]
        /\ IF m.ack /\ Head(pending[p]).op = "fill"
             THEN checkEligibleAfterFill(p, Head(pending[p]).key, state, pend, inb)
             ELSE /\ NoWrite(p, pend, inb)
                  /\ loc' = [loc EXCEPT ![p].overlay =
                               IF state # snapshotValue(p)
                                 THEN updateBoardUI(p, state, loc[p].pendingLines)
                                 ELSE @]
  /\ UNCHANGED <<variant, resets>>

\* resetBtn click handler (confirmed).
PDReset(p) ==
  /\ variant = "pd"
  /\ resets < MaxResets
  /\ Len(pending[p]) < MaxPending
  /\ Write(p, WReset, pending[p], inbox)
  /\ loc' = [loc EXCEPT ![p].pendingLines = {}, ![p].overlay = {}]
  /\ resets' = resets + 1
  /\ UNCHANGED <<variant, sv>>

NextPD ==
  \E p \in Clients :
    \/ \E k \in Keys : PDClickCell(p, k)
    \/ \E l \in LineIds : PDClickLine(p, l)
    \/ PDTimer(p)
    \/ PDDeliver(p)
    \/ PDReset(p)

\* -------------------------------------- script.js 562-1034: immediate-claim
\* gameContainer click handler: a click on the circle with key k.
ICClickCell(p, k) ==
  LET state == snapshotValue(p)
  IN /\ variant = "ic"
     /\ Len(pending[p]) < MaxPending
     /\ state.turn = p
     /\ state.cells[k] = 0
     /\ Write(p, WFill(k, p), pending[p], inbox)
     /\ UNCHANGED <<variant, sv, loc, resets>>

\* processAfterFill(filledKey), run on record `state` with p's writes `pend`
\* still waiting.
processAfterFill(p, filledKey, state, pend, inb) ==
  LET completedThisMove == CompletedThrough(filledKey, state)
      pointsGained == SumLen(completedThisMove)
  IN IF completedThisMove # {}
       THEN Write(p, WClaim(completedThisMove, p, state.scores[p] + pointsGained),
                  pend, inb)
       ELSE Write(p, WTurn(Other(p)), pend, inb)

\* The next message of the store reaches client p: the onValue(GAME_REF)
\* listener, and for the acknowledgement of a fill the .then() of the click
\* handler.
ICDeliver(p) ==
  /\ variant = "ic"
  /\ inbox[p] # <<>>
  /\ LET m == Head(inbox[p])
         pend == IF m.ack THEN Tail(pending[p]) ELSE pending[p]
         inb == [inbox EXCEPT ![p] = Tail(@)]
         state == ApplyAll(pend, m.st)
     IN /\ sv' = [sv EXCEPT ![p] = m.st]
        /\ IF m.ack /\ Head(pending[p]).op = "fill"
             THEN processAfterFill(p, Head(pending[p]).key, state, pend, inb)
             ELSE NoWrite(p, pend, inb)
  /\ UNCHANGED <<variant, loc, resets>>

\* resetBtn click handler (confirmed).
ICReset(p) ==
  /\ variant = "ic"
  /\ resets < MaxResets
  /\ Len(pending[p]) < MaxPending
  /\ Write(p, WReset, pending[p], inbox)
  /\ resets' = resets + 1
  /\ UNCHANGED <<variant, sv, loc>>

NextIC ==
  \E p \in Clients :
    \/ \E k \in Keys : ICClickCell(p, k)
    \/ ICDeliver(p)
    \/ ICReset(p)

\* ------------------------------------ part_000 1-226: transaction variant
\* The circles of initGrid: row r holds the columns 0 .. n-1-r.
TXKeys(n) == {rc \in (0..(n - 1)) \X (0..(n - 1)) : rc[2] < n - rc[1]}

\* buildLines: `while(r<10&&c<10-r){seg.push(..); r++; c++;}`
RECURSIVE segDownRight(_, _, _)
segDownRight(n, r, c) ==
  IF r < n /\ c < n - r
    THEN <<<<r, c>>>> \o segDownRight(n, r + 1, c + 1)
    ELSE <<>>

\* buildLines: `while(r<10&&c>=0){seg.push(..); r++; c--;}`
RECURSIVE segDownLeft(_, _, _)
segDownLeft(n, r, c) ==
  IF r < n /\ c >= 0
    THEN <<<<r, c>>>> \o segDownLeft(n, r + 1, c - 1)
    ELSE <<>>

LongerThanOne(seg) == Len(seg) > 1

\* allowedLines, in the order buildLines pushes them (10 is n, 9 is n-1).
buildLines(n) ==
  [i \in 1..(n - 1) |-> [j \in 1..(n - (i - 1)) |-> <<i - 1, j - 1>>]]
  \o SelectSeq([i \in 1..(n - 1) |-> segDownRight(n, 0, i - 1)], LongerThanOne)
  \o SelectSeq([i \in 1..(n - 2) |-> segDownRight(n, i, 0)], LongerThanOne)
  \o SelectSeq([i \in 1..(n - 1) |-> segDownLeft(n, 0, i)], LongerThanOne)
  \o SelectSeq([i \in 1..(n - 2) |-> segDownLeft(n, i, n - 1 - i)], LongerThanOne)

allowedLines == buildLines(BoardRows)

TXCells == TXKeys(BoardRows)

\* No record at games/<roomId> (snapshot.val() is null).
NoRecord == [absent |-> TRUE]

\* `let state = { board:{}, lines:[], score:{blue:0,red:0}, turn:'blue' }`.
\* An empty cell is "", a turn of null is "none".  Firebase keeps no empty
\* object, no empty array and no null: a record read back from the store has
\* no `board` when no cell is filled and no `lines` when none is drawn.
TXInitState ==
  [board |-> [k \in TXCells |-> ""],
   lines |-> <<>>,
   score |-> [blue |-> 0, red |-> 0],
   turn  |-> "blue"]

Players == {"blue", "red"}

OtherPlayer(p) == IF p = "blue" THEN "red" ELSE "blue"

\* playerId of the two clients.
playerId(c) == IF c = 1 THEN "blue" ELSE "red"

HasBoard(S) == \E k \in TXCells : S.board[k] # ""

HasLines(S) == S.lines # <<>>

\* The transaction functions, run on `data` (the value Firebase hands in).
\* The result is [ok, out, la]: the record returned and the value of lastAction
\* after the run; ok is FALSE when the function returns undefined or throws
\* (data.board[key] on a record without `board`).
Kept(la) == [ok |-> FALSE, out |-> NoRecord, la |-> la]

\* onFill: data => { ... }
FillFn(p, key, data, la) ==
  LET d == IF data = NoRecord THEN TXInitState ELSE data
  IN IF d.turn # p THEN Kept(la)
     ELSE IF data # NoRecord /\ ~HasBoard(d) THEN Kept(la)
     ELSE IF d.board[key] # "" THEN Kept(la)
     ELSE [ok |-> TRUE, out |-> [d EXCEPT !.board[key] = p, !.turn = "none"],
           la |-> "fill"]

\* tryLine: data => { ... }
LineFn(p, match, data, la) ==
  LET d == IF data = NoRecord THEN TXInitState ELSE data
  IN [ok |-> TRUE,
      out |-> [d EXCEPT !.lines = Append(@, [from |-> match[1],
                                                 to |-> match[Len(match)],
                                                 player |-> p]),
                          !.score[p] = @ + Len(match),
                          !.turn = p],
      la |-> "line"]

\* giveBtn: data => { ... }
GiveFn(p, data, la) ==
  LET d == IF data = NoRecord THEN TXInitState ELSE data
  IN [ok |-> TRUE, out |-> [d EXCEPT !.turn = OtherPlayer(p)], la |-> "null"]

RunFn(p, fn, data, la) ==
  CASE fn.op = "fill" -> FillFn(p, fn.key, data, la)
    [] fn.op = "line" -> LineFn(p, fn.match, data, la)
    [] fn.op = "give" -> GiveFn(p, data, la)

\* The value Firebase holds for the record at client c: what the store sent
\* last, or the result of c's latest transaction (or set) that is still
\* waiting for the store's answer.
FbView(c) == IF pending[c] = <<>> THEN sv[c] ELSE pending[c][Len(pending[c])].out

\* onValue: `if(data) state=data`.
TXstate(c) == IF FbView(c) = NoRecord THEN TXInitState ELSE FbView(c)

\* `state` is still the object of line 25, which has `board` and `lines`.
OwnState(c) == FbView(c) = NoRecord

\* The script's variables when the page has loaded; `loads` counts the times
\* the page was loaded again.
TXLocInit == [lastAction |-> "null", drawing |-> FALSE, loads |-> 0]

TXPush(q, m) ==
  IF Len(q) > 0 /\ ~q[Len(q)].ack THEN [q EXCEPT ![Len(q)] = m] ELSE Append(q, m)

MarkSent(pend) == [i \in 1..Len(pend) |-> [pend[i] EXCEPT !.sent = TRUE]]

\* Firebase sends client c's waiting transactions `pend` as one put with the
\* hash of `base`, the value they were run on; the store takes the result
\* when it still holds `base` and refuses it otherwise.
TXSend(c, pend, base, inb) ==
  LET out == pend[Len(pend)].out
  IN IF base = store
       THEN /\ store' = out
            /\ pending' = [pending EXCEPT ![c] = MarkSent(pend)]
            /\ inbox' = [q \in Clients |->
                           IF q = c
                             THEN TXPush(inb[q], [st |-> out, ack |-> TRUE, ok |-> TRUE])
                           ELSE IF out # store
                             THEN TXPush(inb[q], [st |-> out, ack |-> FALSE, ok |-> TRUE])
                           ELSE inb[q]]
            /\ last' = [op |-> "commit", by |-> c, batch |-> pend, before |-> store]
       ELSE /\ pending' = [pending EXCEPT ![c] = MarkSent(pend)]
            /\ inbox' = [inb EXCEPT ![c] =
                           TXPush(@, [st |-> store, ack |-> TRUE, ok |-> FALSE])]
            /\ UNCHANGED <<store, last>>

\* runTransaction(ref, fn) by client c: the first run, on the value Firebase
\* holds, and the put when no put of c is waiting for its answer.  `l` holds
\* c's local variables as the handler leaves them.
runTransaction(c, fn, l) ==
  LET r == RunFn(playerId(c), fn, FbView(c), loc[c].lastAction)
      e == [fn |-> fn, in |-> FbView(c), out |-> r.out, sent |-> FALSE]
  IN /\ Len(pending[c]) < MaxInFlight
     /\ loc' = [loc EXCEPT ![c] = [l EXCEPT !.lastAction = r.la]]
     /\ IF ~r.ok THEN UNCHANGED <<store, pending, inbox, last>>
        ELSE IF pending[c] = <<>> THEN TXSend(c, <<e>>, sv[c], inbox)
        ELSE /\ pending' = [pending EXCEPT ![c] = Append(@, e)]
             /\ UNCHANGED <<store, inbox, last>>

\* onFill on circle `key`, when it gets as far as the transaction.
TXFill(c, key) ==
  LET state == TXstate(c)
  IN /\ variant = "tx"
     /\ state.turn = playerId(c)
     /\ OwnState(c) \/ HasBoard(state)
     /\ state.board[key] = ""
     /\ loc[c].lastAction # "fill"
     /\ runTransaction(c, [op |-> "fill", key |-> key], loc[c])
     /\ UNCHANGED <<variant, sv, resets>>

\* gridEl pointerdown, on a circle when onFill (which runs first there) starts
\* no transaction, or between the circles.  The circles the gesture collects
\* in `path` are an input of the pointerup that ends it.
TXPointerDown(c) ==
  /\ variant = "tx"
  /\ TXstate(c).turn = playerId(c)
  /\ loc' = [loc EXCEPT ![c].drawing = TRUE]
  /\ UNCHANGED <<variant, store, sv, pending, inbox, last, resets>>

Reverse(seq) == [i \in 1..Len(seq) |-> seq[Len(seq) + 1 - i]]

\* The paths a gesture may have collected when the pointer goes up.
GesturePaths ==
  {<<>>} \cup {<<k>> : k \in TXCells}
  \cup {allowedLines[i] : i \in 1..Len(allowedLines)}
  \cup {Reverse(allowedLines[i]) : i \in 1..Len(allowedLines)}

\* tryLine: allowedLines.find(..); 0 when no line matches.
Matches(seg, path) ==
  /\ Len(seg) = Len(path)
  /\ \A i \in 1..Len(seg) : seg[i] = path[i] \/ seg[i] = path[Len(path) + 1 - i]

FindMatch(path) ==
  IF \E i \in 1..Len(allowedLines) : Matches(allowedLines[i], path)
    THEN CHOOSE i \in 1..Len(allowedLines) :
           /\ Matches(allowedLines[i], path)
           /\ \A j \in 1..(i - 1) : ~Matches(allowedLines[j], path)
    ELSE 0

\* tryLine: state.lines.some(..)
Exists(state, match) ==
  \E i \in 1..Len(state.lines) :
    state.lines[i].from = match[1] /\ state.lines[i].to = match[Len(match)]

\* gridEl pointerup with the collected `path`, and tryLine.
TXPointerUp(c, path) ==
  LET state == TXstate(c)
      m == FindMatch(path)
  IN /\ variant = "tx"
     /\ loc[c].drawing
     /\ Len(state.lines) < MaxLines
     /\ IF /\ m # 0
           /\ OwnState(c) \/ HasLines(state)
           /\ ~Exists(state, allowedLines[m])
          THEN runTransaction(c, [op |-> "line", match |-> allowedLines[m]],
                              [loc[c] EXCEPT !.drawing = FALSE])
          ELSE /\ loc' = [loc EXCEPT ![c].drawing = FALSE]
               /\ UNCHANGED <<store, pending, inbox, last>>
     /\ UNCHANGED <<variant, sv, resets>>

\* giveBtn click handler.
TXGive(c) ==
  /\ variant = "tx"
  /\ runTransaction(c, [op |-> "give"], loc[c])
  /\ UNCHANGED <<variant, sv, resets>>

\* resetBtn click handler: set(ref, {board:{}, lines:[], score:.., turn:'blue'}).
TXReset(c) ==
  /\ variant = "tx"
  /\ resets < MaxResets
  /\ pending[c] = <<>>
  /\ store' = TXInitState
  /\ pending' = [pending EXCEPT ![c] =
                   <<[fn |-> [op |-> "set"], in |-> store, out |-> TXInitState,
                      sent |-> TRUE]>>]
  /\ inbox' = [q \in Clients |->
                 IF q = c
                   THEN TXPush(inbox[q], [st |-> TXInitState, ack |-> TRUE, ok |-> TRUE])
                 ELSE IF TXInitState # store
                   THEN TXPush(inbox[q], [st |-> TXInitState, ack |-> FALSE, ok |-> TRUE])
                 ELSE inbox[q]]
  /\ last' = [op |-> "reset", by |-> c, before |-> store]
  /\ resets' = resets + 1
  /\ UNCHANGED <<variant, sv, loc>>

\* Client c loads the page again: the script starts over with the `state` of
\* line 25, Firebase has no value for the record until the listener's first
\* snapshot arrives, and what the old page was waiting for is gone.
TXReload(c) ==
  /\ variant = "tx"
  /\ loc[1].loads + loc[2].loads < MaxReloads
  /\ loc' = [loc EXCEPT ![c] = [TXLocInit EXCEPT !.loads = loc[c].loads + 1]]
  /\ sv' = [sv EXCEPT ![c] = NoRecord]
  /\ pending' = [pending EXCEPT ![c] = <<>>]
  /\ inbox' = [inbox EXCEPT ![c] =
                 IF store = NoRecord THEN <<>>
                 ELSE <<[st |-> store, ack |-> FALSE, ok |-> TRUE]>>]
  /\ UNCHANGED <<variant, store, last, resets>>

\* The transactions of `es` run again, in order, on `cur`; those that return
\* undefined are dropped.  The result is [pend, la].
RECURSIVE Rerun(_, _, _, _, _)
Rerun(p, es, cur, la, acc) ==
  IF es = <<>> THEN [pend |-> acc, la |-> la]
  ELSE LET r == RunFn(p, Head(es).fn, cur, la)
       IN IF r.ok
            THEN Rerun(p, Tail(es), r.out, r.la,
                       Append(acc, [fn |-> Head(es).fn, in |-> cur, out |-> r.out,
                                    sent |-> FALSE]))
            ELSE Rerun(p, Tail(es), cur, r.la, acc)

Unsent(pend) == SelectSeq(pend, LAMBDA e : ~e.sent)

\* The next message of the store reaches client c: data of the other client's
\* write, the acknowledgement of c's put (the transactions that waited behind
\* it are sent), or its refusal (c's transactions run again on the value the
\* store holds and are sent again).
TXDeliver(c) ==
  /\ variant = "tx"
  /\ inbox[c] # <<>>
  /\ LET m == Head(inbox[c])
         inb == [inbox EXCEPT ![c] = Tail(@)]
         again == Rerun(playerId(c), pending[c], m.st, loc[c].lastAction, <<>>)
         pend == IF ~m.ack THEN pending[c]
                 ELSE IF m.ok THEN Unsent(pending[c])
                 ELSE again.pend
     IN /\ sv' = [sv EXCEPT ![c] = m.st]
        /\ loc' = [loc EXCEPT ![c].lastAction =
                     IF m.ack /\ ~m.ok THEN again.la ELSE @]
        /\ IF m.ack /\ pend # <<>>
             THEN TXSend(c, pend, m.st, inb)
             ELSE /\ pending' = [pending EXCEPT ![c] = pend]
                  /\ inbox' = inb
                  /\ UNCHANGED <<store, last>>
  /\ UNCHANGED <<variant, resets>>

NextTX ==
  \E c \in Clients :
    \/ \E key \in TXCells : TXFill(c, key)
    \/ TXPointerDown(c)
    \/ \E path \in GesturePaths : TXPointerUp(c, path)
    \/ TXGive(c)
    \/ TXReset(c)
    \/ TXReload(c)
    \/ TXDeliver(c)


\* ---------------------------------- part_000 228-347: simple variant
\* createBoard: row r holds the columns 0 .. n-1-r.
SVCells == TXKeys(BoardRows)

\* The record at <gameId>: board[row][col] (0: no entry), currentTurn (0: no
\* entry) and the keys of `players`.
SVEmpty == [board |-> [k \in SVCells |-> 0], currentTurn |-> 0, players |-> {}]

\* `let myPlayerNumber = null` (0) and whether the page has run its script.
SVLocInit == [loaded |-> FALSE, myPlayerNumber |-> 0]

\* update(ref(db), updates) and set(ref(db, ..), ..) of the simple variant.
SVApply(w, S) ==
  CASE w.op = "init"   -> [S EXCEPT !.currentTurn = 1]
    [] w.op = "click"  -> [S EXCEPT !.board[w.key] = w.val,
                                    !.currentTurn = IF w.val = 1 THEN 2 ELSE 1]
    [] w.op = "player" -> [S EXCEPT !.players = @ \cup {w.val}]

RECURSIVE SVApplyAll(_, _)
SVApplyAll(ws, S) == IF ws = <<>> THEN S ELSE SVApplyAll(Tail(ws), SVApply(Head(ws), S))

\* The record in client c's cache.
SVView(c) == SVApplyAll(pending[c], sv[c])

\* `currentTurn = data.currentTurn || 1`, as updateGameState left it.
currentTurn(c) == IF SVView(c).currentTurn = 0 THEN 1 ELSE SVView(c).currentTurn

\* updateGameState, "Update Scores": the score shown for player p is the
\* summed length of the rows whose circles all hold p.
RECURSIVE SVRowScore(_, _, _)
SVRowScore(data, p, row) ==
  IF row >= BoardRows THEN 0
  ELSE (IF \A col \in 0..(BoardRows - 1 - row) : data.board[<<row, col>>] = p
          THEN BoardRows - row ELSE 0)
       + SVRowScore(data, p, row + 1)

SVScore(data, p) == SVRowScore(data, p, 0)

\* A write of client c; the clients that listen are told.
SVWrite(c, w, pend, inb, listening) ==
  /\ store' = SVApply(w, store)
  /\ pending' = [pending EXCEPT ![c] = Append(pend, w)]
  /\ inbox' = [q \in Clients |->
                 IF q = c THEN PushAck(inb[q], SVApply(w, store))
                 ELSE IF q \in listening /\ SVApply(w, store) # store
                   THEN PushData(inb[q], SVApply(w, store))
                 ELSE inb[q]]
  /\ last' = [op |-> w.op, by |-> c, w |-> w, before |-> store]

Listening == {q \in Clients : loc[q].loaded}

\* The page loads at client c: set(ref(db, `${gameId}/currentTurn`), 1) and
\* onValue(ref(db, gameId), updateGameState).
SVLoad(c) ==
  /\ variant = "sv"
  /\ ~loc[c].loaded
  /\ SVWrite(c, [op |-> "init"], pending[c], inbox, Listening)
  /\ loc' = [loc EXCEPT ![c].loaded = TRUE]
  /\ UNCHANGED <<variant, sv, resets>>

\* handleCircleClick(row, col).
handleCircleClick(c, k) ==
  /\ variant = "sv"
  /\ Len(pending[c]) < MaxPending
  /\ loc[c].myPlayerNumber # 0
  /\ loc[c].myPlayerNumber = currentTurn(c)
  /\ SVWrite(c, [op |-> "click", key |-> k, val |-> loc[c].myPlayerNumber],
             pending[c], inbox, Listening)
  /\ UNCHANGED <<variant, sv, loc, resets>>

\* The next message of the store reaches client c: updateGameState(snapshot).
updateGameState(c) ==
  /\ variant = "sv"
  /\ inbox[c] # <<>>
  /\ LET m == Head(inbox[c])
         pend == IF m.ack THEN Tail(pending[c]) ELSE pending[c]
         inb == [inbox EXCEPT ![c] = Tail(@)]
         data == SVApplyAll(pend, m.st)
         playerCount == Cardinality(data.players)
         n == IF playerCount < 2 THEN playerCount + 1 ELSE 0
     IN /\ sv' = [sv EXCEPT ![c] = m.st]
        /\ IF loc[c].myPlayerNumber = 0 /\ n # 0
             THEN /\ loc' = [loc EXCEPT ![c].myPlayerNumber = n]
                  /\ SVWrite(c, [op |-> "player", val |-> n], pend, inb, Listening)
             ELSE /\ pending' = [pending EXCEPT ![c] = pend]
                  /\ inbox' = inb
                  /\ UNCHANGED <<store, last, loc>>
  /\ UNCHANGED <<variant, resets>>

NextSV ==
  \E c \in Clients :
    \/ SVLoad(c)
    \/ \E k \in SVCells : handleCircleClick(c, k)
    \/ updateGameState(c)

\* ------------------------------------------- the catalogues, at load time
\* The three catalogues as sets of entries [id, cells]; allowedLines has no
\* ids, an entry is named by its place in the array.
CatKinds == {"pd", "ic", "tx"}

allowedEntries(n) == {Entry("allowed", i, buildLines(n)[i]) : i \in 1..Len(buildLines(n))}

CatalogueOf(kind, n) ==
  CASE kind = "pd" -> PD_ALL_LINES(n)
    [] kind = "ic" -> IC_ALL_LINES(n)
    [] kind = "tx" -> allowedEntries(n)

\* The script of variant store.kind runs its catalogue code for a board of
\* store.n rows.
GeoBuild ==
  /\ variant = "geo"
  /\ ~store.built
  /\ store' = [store EXCEPT !.built = TRUE, !.lines = CatalogueOf(store.kind, store.n)]
  /\ UNCHANGED <<variant, sv, pending, inbox, loc, last, resets>>

\* A lookup of one entry of the catalogue (LINE_TO_KEYS[lineId], allowedLines.find).
GeoLookup(e) ==
  /\ variant = "geo"
  /\ store.built
  /\ e \in store.lines
  /\ last' = [op |-> "lookup", line |-> e]
  /\ UNCHANGED <<variant, store, sv, pending, inbox, loc, resets>>

NextGeo == GeoBuild \/ \E e \in CatalogueOf(store.kind, store.n) : GeoLookup(e)

\* -------------------------------------------------------- specifications
InitScript(v) ==
  /\ variant = v
  /\ store = buildInitialState
  /\ sv = [p \in Clients |-> buildInitialState]
  /\ pending = [p \in Clients |-> <<>>]
  /\ inbox = [p \in Clients |-> <<>>]
  /\ loc = [p \in Clients |-> LocInit]
  /\ last = [op |-> "none", fill |-> NoFill]
  /\ resets = 0

InitPD == InitScript("pd")

SpecPD == InitPD /\ [][NextPD]_vars

InitIC == InitScript("ic")

SpecIC == InitIC /\ [][NextIC]_vars

InitTX ==
  /\ variant = "tx"
  /\ store = NoRecord
  /\ sv = [c \in Clients |-> NoRecord]
  /\ pending = [c \in Clients |-> <<>>]
  /\ inbox = [c \in Clients |-> <<>>]
  /\ loc = [c \in Clients |-> TXLocInit]
  /\ last = [op |-> "none"]
  /\ resets = 0

SpecTX == InitTX /\ [][NextTX]_vars

InitSV ==
  /\ variant = "sv"
  /\ store = SVEmpty
  /\ sv = [c \in Clients |-> SVEmpty]
  /\ pending = [c \in Clients |-> <<>>]
  /\ inbox = [c \in Clients |-> <<>>]
  /\ loc = [c \in Clients |-> SVLocInit]
  /\ last = [op |-> "none"]
  /\ resets = 0

SpecSV == InitSV /\ [][NextSV]_vars

\* Every row count from 2 to ROW_COUNT, every catalogue.
InitGeo ==
  /\ variant = "geo"
  /\ store \in {[kind |-> k, n |-> n, built |-> FALSE, lines |-> {}] :
                  k \in CatKinds, n \in 2..ROW_COUNT}
  /\ sv = [c \in Clients |-> NoRecord]
  /\ pending = [c \in Clients |-> <<>>]
  /\ inbox = [c \in Clients |-> <<>>]
  /\ loc = [c \in Clients |-> LocInit]
  /\ last = [op |-> "none"]
  /\ resets = 0

SpecGeo == InitGeo /\ [][NextGeo]_vars

\* ------------------------------------------------------------- properties
\* A line of record S whose cells are all occupied.
Complete(l, S) == \A c \in LINE_TO_KEYS(l) : S.cells[c] # 0

\* The record a transaction function works on: `if(!data) data=state`.
TXRecord(S) == IF S = NoRecord THEN TXInitState ELSE S

\* The cells of the allowed line drawn from `from` to `to`.
TXLineCells(from, to) ==
  UNION {Range(allowedLines[i]) : i \in {j \in 1..Len(allowedLines) :
           /\ allowedLines[j][1] = from
           /\ allowedLines[j][Len(allowedLines[j])] = to}}

\* C1 (script.js, both variants): a write `cells/<key> = p` is applied to the
\* store only when the store's `turn` is p at that moment.
C1_FillOnlyByTurnHolder == last.op = "fill" => last.before.turn = last.by

\* C2 (transaction variant): a line is recorded in `lines` at most once: no
\* two entries of the store's `lines` join the same two end cells.
C2_LineClaimedOnce ==
  \A i, j \in 1..Len(TXRecord(store).lines) :
    i # j => \/ TXRecord(store).lines[i].from # TXRecord(store).lines[j].from
             \/ TXRecord(store).lines[i].to # TXRecord(store).lines[j].to

\* C3 (script.js): in every store state the two scores add up to the summed
\* lengths of the lines recorded in `lines`.
C3_ScoreConservation ==
  store.scores[1] + store.scores[2] = SumLen({l \in LineIds : store.lines[l] # 0})

\* C4 (simple variant): once a cell holds a player its occupant never changes:
\* a click on an occupied cell leaves the cell's entry in the store as it was.
C4_OccupantNeverChanges ==
  (last.op = "click" /\ last.before.board[last.w.key] # 0) =>
    store.board[last.w.key] = last.before.board[last.w.key]

\* C5 (transaction variant): the store takes a fill only from the player who
\* holds `turn` in the record the fill is applied to, and only on an empty
\* cell: every fill of a committed put ran on the store's record (or on the
\* result of the transaction before it in the same put) with that player's
\* turn.  Of two fills sent at the same time the store therefore commits at
\* most the turn holder's; a refused put leaves the store as it is.
C5_OnlyTurnHolderFills ==
  last.op = "commit" =>
    /\ last.batch[1].in = last.before
    /\ store = last.batch[Len(last.batch)].out
    /\ \A i \in 1..Len(last.batch) :
         /\ i > 1 => last.batch[i].in = last.batch[i - 1].out
         /\ last.batch[i].fn.op = "fill" =>
              /\ TXRecord(last.batch[i].in).turn = playerId(last.by)
              /\ TXRecord(last.batch[i].in).board[last.batch[i].fn.key] = ""

\* C5 (transaction variant): of two fills sent at the same time, the fill of
\* the player who holds `turn` in the store is committed: when the store has
\* refused that player's put and the fill runs again on the store's record,
\* with the player's turn and the cell empty, it returns a record.
C5_TurnHolderFillCommitted ==
  \A c \in Clients :
    (/\ pending[c] # <<>>
     /\ pending[c][1].fn.op = "fill"
     /\ inbox[c] # <<>>
     /\ Head(inbox[c]).ack /\ ~Head(inbox[c]).ok
     /\ Head(inbox[c]).st = store
     /\ TXRecord(store).turn = playerId(c)
     /\ TXRecord(store).board[pending[c][1].fn.key] = ""
     /\ \E j \in 1..Len(pending[Other(c)]) : pending[Other(c)][j].fn.op = "fill")
    => FillFn(playerId(c), pending[c][1].fn.key, store, loc[c].lastAction).ok

\* C5 (transaction variant): when both clients send a fill at the same time,
\* exactly the fill of the player who holds `turn` in the store is committed.
C5_ExactlyTurnHolderCommits == C5_OnlyTurnHolderFills /\ C5_TurnHolderFillCommitted

\* C6 (immediate-claim): the player hands the turn over only when the latest
\* fill completed no line; a claim records exactly the lines the latest fill
\* completed, for the claiming player, adds their summed length to that
\* player's score and leaves the turn with that player.
C6_FillResolution ==
  /\ last.op = "turn" /\ last.fill.by = last.by => last.fill.done = {}
  /\ last.op = "claim" =>
       /\ last.fill.by = last.by
       /\ last.w.lines = last.fill.done
       /\ \A l \in last.w.lines : store.lines[l] = last.by
       /\ store.scores[last.by] = last.before.scores[last.by] + SumLen(last.w.lines)
       /\ store.turn = last.by

\* C7 (pending-draw): while a completed line waits to be claimed no fill is
\* accepted: a fill is applied only to a store without a complete, unclaimed
\* line.
C7_NoFillWhileResolving ==
  last.op = "fill" =>
    \A l \in LineIds : ~(Complete(l, last.before) /\ last.before.lines[l] = 0)

\* C8 (transaction variant): every line recorded in the store's `lines` has
\* all of its cells occupied.
C8_RecordedLineIsFull ==
  \A i \in 1..Len(TXRecord(store).lines) :
    \A k \in TXLineCells(TXRecord(store).lines[i].from, TXRecord(store).lines[i].to) :
      TXRecord(store).board[k] # ""

\* C9 (script.js): the other client never observes a store state in which
\* p's fill is present while its resolution is not: when the record with the
\* new cell reaches the other client, the turn has been handed over or the
\* lines the fill completed are recorded.
C9_FillAndResolutionTogether ==
  \A q \in Clients :
    (last.op = "fill" /\ q # last.by /\ sv[q] = store) =>
      IF last.fill.done = {} THEN store.turn # last.by
      ELSE \A l \in last.fill.done : store.lines[l] = last.by

\* C10 (transaction variant): a line is accepted only while the match is
\* resolving the claiming player's fill, i.e. on a record whose turn is
\* locked (null) after that fill.
C10_LineOnlyWhileResolving ==
  last.op = "commit" =>
    \A i \in 1..Len(last.batch) :
      last.batch[i].fn.op = "line" => TXRecord(last.batch[i].in).turn = "none"

\* The allowed lines (places in allowedLines) that the fill of `key` completes
\* in record S: the line holds `key`, all its cells are occupied and it is not
\* in S.lines.
TXCompletedBy(key, S) ==
  {i \in 1..Len(allowedLines) :
     /\ key \in Range(allowedLines[i])
     /\ \A k \in Range(allowedLines[i]) : S.board[k] # ""
     /\ ~Exists(S, allowedLines[i])}

\* C11 (transaction variant): a committed fill that completes no allowed line
\* hands the turn to the other player by itself: the record the fill returns
\* has `turn` equal to the other player.
C11_FillPassesTurn ==
  last.op = "commit" =>
    \A i \in 1..Len(last.batch) :
      (/\ last.batch[i].fn.op = "fill"
       /\ TXCompletedBy(last.batch[i].fn.key, last.batch[i].out) = {})
      => last.batch[i].out.turn = OtherPlayer(playerId(last.by))

\* C12 (transaction variant): after client c's committed fill has occupied the
\* last empty cell of an allowed line, and c has received the store's answer,
\* c's gesture over that line is accepted: pointerdown starts the gesture
\* (state.turn is c's) and tryLine reaches the transaction (state.lines can be
\* read and does not hold the line).
C12_LineAfterCompletingFill ==
  \A c \in Clients :
    (/\ last.op = "commit" /\ last.by = c
     /\ last.batch[Len(last.batch)].fn.op = "fill"
     /\ TXCompletedBy(last.batch[Len(last.batch)].fn.key, store) # {}
     /\ pending[c] = <<>> /\ inbox[c] = <<>> /\ sv[c] = store)
    => \A i \in TXCompletedBy(last.batch[Len(last.batch)].fn.key, store) :
         /\ TXstate(c).turn = playerId(c)
         /\ OwnState(c) \/ HasLines(TXstate(c))
         /\ ~Exists(TXstate(c), allowedLines[i])

C14_FreshUntilFill ==
  (/\ resets > 0
   /\ last.op # "none"
   /\ last.before = buildInitialState
   /\ store # buildInitialState)
  => last.op = "fill"

\* C14 (transaction variant): after a reset, once the first player's client
\* holds the fresh record, its fill on any circle is accepted: onFill reaches
\* the transaction (turn, state.board[key], lastAction) and the transaction
\* function returns a record.
C14_FirstFillAccepted ==
  (/\ last.op = "reset"
   /\ sv[1] = store /\ pending[1] = <<>> /\ inbox[1] = <<>>)
  => \A key \in TXCells :
       /\ TXstate(1).turn = playerId(1)
       /\ OwnState(1) \/ HasBoard(TXstate(1))
       /\ loc[1].lastAction # "fill"
       /\ FillFn(playerId(1), key, FbView(1), loc[1].lastAction).ok

\* C14: after a reset the match waits for the first player's fill, in the
\* fresh state, and that fill is accepted.
C14_AfterReset ==
  /\ variant \in {"pd", "ic"} => C14_FreshUntilFill
  /\ variant = "tx" => C14_FirstFillAccepted

\* C15 (transaction variant): a fill that is not committed changes nothing.
\* When the store has refused client c's put of a fill and the transaction
\* function, run again on the store's record, aborts, the store is unchanged
\* and c's lastAction is what it was before the attempt, which onFill only
\* starts when lastAction is not 'fill'.
C15_AbortedFillChangesNothing ==
  [][\A c \in Clients :
       (/\ inbox[c] # <<>>
        /\ Head(inbox[c]).ack /\ ~Head(inbox[c]).ok
        /\ Len(pending[c]) = 1
        /\ pending[c][1].fn.op = "fill"
        /\ pending'[c] = <<>>
        /\ inbox'[c] = Tail(inbox[c]))
       => /\ store' = store
          /\ loc'[c].lastAction # "fill"]_vars

\* C16 (simple variant): the score computed from the board for each player
\* never decreases from one store state to the next.
C16_ScoreNeverDecreases ==
  [][\A p \in Clients : SVScore(store', p) >= SVScore(store, p)]_vars

\* The rows of the simple variant's board whose circles are all occupied.
SVFullRows(data) ==
  {row \in 0..(BoardRows - 1) :
     \A col \in 0..(BoardRows - 1 - row) : data.board[<<row, col>>] # 0}

RECURSIVE SVRowsLen(_)
SVRowsLen(rows) ==
  IF rows = {} THEN 0
  ELSE LET row == CHOOSE x \in rows : TRUE
       IN (BoardRows - row) + SVRowsLen(rows \ {row})

\* C17 (simple variant): a row counts as complete, and its length is scored,
\* when all its circles are occupied, whoever occupies them: the two scores
\* add up to the summed length of the fully occupied rows.
C17_CompletionByOccupancy ==
  SVScore(store, 1) + SVScore(store, 2) = SVRowsLen(SVFullRows(store))

\* C18 (catalogues): every line of a catalogue built at load time has at
\* least 2 positions, for every row count from 2 to ROW_COUNT.
C18_LinesHaveTwoCells ==
  store.built => \A e \in store.lines : Len(e.cells) >= 2

\* C19 (immediate-claim and transaction catalogues): no entry is a segment
\* (two cells or more) whose cells are the cells, or part of the cells, of
\* another entry.
C19_NoSubSegment ==
  (store.built /\ store.kind \in {"ic", "tx"}) =>
    \A e, f \in store.lines :
      (e # f /\ Len(e.cells) >= 2) => ~(Range(e.cells) \subseteq Range(f.cells))

C21_CompletedLineStaysPending ==
  \A l \in LineIds :
    (Complete(l, store) /\ store.lines[l] = 0) =>
      \E p \in Clients :
        \/ l \in loc[p].pendingLines
        \/ \E i \in 1..Len(pending[p]) :
             pending[p][i].op = "fill" /\ pending[p][i].key \in LINE_TO_KEYS(l)

\* The entries of catalogue `cat` whose id starts with `kind`.
OfKind(cat, kind) == {e \in cat : e.id[1] = kind}

C23_AllowedLinesHas27 ==
  (store.built /\ store.kind = "tx" /\ store.n = ROW_COUNT) =>
    Cardinality(store.lines) = 27

\* C24 (simple variant): a client that loads while a match is in progress
\* (some circle is filled) leaves the match's board and turn as they are.
C24_LoadKeepsMatch ==
  (/\ last.op = "init"
   /\ \E k \in SVCells : last.before.board[k] # 0)
  => /\ store.board = last.before.board
     /\ store.currentTurn = last.before.currentTurn

\* C25 (script.js): a client hands over only a turn it holds: every write
\* `turn = other(p)` of client p is applied to a store whose turn is p.
C25_HandOverOnlyWhenHolding ==
  last.op = "turn" => last.before.turn = last.by

\* C26 (pending-draw): a fill changes only the filled cell and a hand-over
\* only `turn`; `lines` and `scores` of the store change only by a reset or by
\* a claim of lines that the claiming client clicked on, i.e. lines that were
\* pending and shown as overlays at that client.
C26_FillFrame ==
  [][/\ (store' # store /\ last'.op = "fill") =>
          store' = [store EXCEPT !.cells[last'.w.key] = last'.by]
     /\ (store' # store /\ last'.op = "turn") =>
          store' = [store EXCEPT !.turn = last'.w.val]
     /\ (store'.lines # store.lines \/ store'.scores # store.scores) =>
          \/ last'.op = "reset"
          \/ /\ last'.op = "claim"
             /\ last'.w.lines \subseteq
                  (loc[last'.by].pendingLines \cap loc[last'.by].overlay)]_vars

\* The check of a fill that completed a line has run: the line is pending at
\* the filler, nothing waits for an acknowledgement, and the store has no
\* claimed line and no score.
C26_CheckRanWithEligibleLine ==
  /\ variant = "pd"
  /\ \E p \in Clients :
       /\ loc[p].pendingLines # {}
       /\ pending[p] = <<>>
       /\ last.op = "fill" /\ last.by = p /\ last.fill.done # {}
  /\ \A l \in LineIds : store.lines[l] = 0
  /\ \A q \in Clients : store.scores[q] = 0

\* C27 (script.js): a client writes only its own score, claims only lines
\* that are not yet in `lines`, and fills only cells that are empty in the
\* store: no write other than a reset changes the opponent's score, a claimed
\* line or an occupied cell.
C27_OnlyOwnEntries ==
  /\ last.op = "claim" =>
       /\ \A l \in last.w.lines : last.before.lines[l] = 0
       /\ store.scores[Other(last.by)] = last.before.scores[Other(last.by)]
  /\ last.op = "fill" => last.before.cells[last.w.key] = 0

\* C28 (simple variant): two clients never hold the same player number.
C28_PlayerNumbersUnique ==
  \A c, d \in Clients :
    (c # d /\ loc[c].myPlayerNumber # 0 /\ loc[d].myPlayerNumber # 0) =>
      loc[c].myPlayerNumber # loc[d].myPlayerNumber

\* C29 (transaction variant): while a circle is empty the match is not stuck.
\* A hand-over (giveTurn) can put either player in `turn`, and no transaction
\* other than a fill changes `board`; so an accepted fill can be reached from
\* the store's record only if, for some player and some circle, the fill's
\* transaction function returns a record when run on the store's record with
\* that player's turn.
C29_NotStuck ==
  (/\ resets = 0
   /\ \E k \in TXCells : TXRecord(store).board[k] = "")
  => \E p \in Players, key \in TXCells :
       FillFn(p, key,
              IF store = NoRecord THEN NoRecord ELSE [store EXCEPT !.turn = p],
              "null").ok

====
